---- MODULE Spec2Model ----
(***************************************************************************)
(* A model of the lyric-video exporter (exportVideo), of the App handler   *)
(* that calls it, and of the active-lyric lookup used by the export's      *)
(* render loop and by the preview.                                         *)
(*                                                                         *)
(* Time is counted in whole units: audio.currentTime ranges over           *)
(* 0..Duration and a lyric's startTime over 0..MaxStart.  A progress value *)
(* p passed to onProgress is stored as the integer p * Scale, which is     *)
(* exact for every value the code computes (0, 0.05, 0.1, 0.15, 0.2,       *)
(* 0.2 + 0.8 * currentTime / duration, 1).                                 *)
(*                                                                         *)
(* The browser is the environment: asset load/error events, the outcome of *)
(* each capability check, audio time advancing, the 'ended' and 'error'    *)
(* events of the audio element, animation frames, the 500 ms timer and the *)
(* MediaRecorder's own events are actions the environment may take.        *)
(***************************************************************************)
EXTENDS Integers, Sequences, FiniteSets, TLC

\* ------------------------------------------------------------- bounds
Duration == 3
MaxCalls == 2
MaxLyrics == 2
MaxStart == 3
MaxTime == 4
MaxColors == 5

Scale == 100 * Duration

VARIABLES
    view,               \* App: appState.view
    isExporting,        \* App: appState.isExporting
    exportStatus,       \* App: appState.exportStatus (which message is shown)
    calls,              \* number of exportVideo invocations begun
    pc,                 \* exportVideo (first invocation): where the async function stands
    error,              \* the Error raised by the first invocation or by one of its handlers
    assets,             \* image, audio, vinylImage: pending / loaded / error
    audioContextState,  \* audioContext.state ("none" before construction)
    videoTracks,        \* tracks of canvas.captureStream(30)
    audioTracks,        \* tracks of destination.stream
    recState,           \* recorder.state ("none" before construction)
    stopEventPending,   \* the recorder's 'stop' event is queued
    stopTimerPending,   \* the setTimeout(..., 500) of audio.onended is pending
    audioState,         \* the export's audio element: none / ready / playing / ended / error
    endedEventPending,  \* the audio element's 'ended' event is queued
    currentTime,        \* audio.currentTime of the export's audio element
    rafScheduled,       \* an animation-frame callback for renderFrame is scheduled
    lastProgress,       \* renderFrame's lastProgress, as a time (-1: the initial -1)
    progressLog,        \* the values passed to onProgress, in call order
    downloads,          \* how often recorder.onstop offered the blob for download
    lastFrame,          \* the last frame composited: <<>> or <<elapsed, lyric>>
    lyrics,             \* the Lyric[] handed to the export and to the preview
    previewTime,        \* preview: audio.currentTime at the last 'timeupdate' (-1: none yet)
    currentLyricIndex,  \* preview: currentLyricIndex
    audioOversize,      \* the audio file is larger than 20 MB
    parsedLyrics,       \* the Lyric[] parsed from the AI response, before it is sorted
    internalOrder,      \* editor: internalLyrics, as indices into lyrics (the objects are shared)
    draggedItemIndex,   \* editor: draggedItemIndex.current (0: null)
    editorTime,         \* editor: audio.currentTime at the last 'timeupdate' (-1: none yet)
    activeLyricIndex,   \* editor: activeLyricIndex
    visualizationStyle, \* options.visualizationStyle
    lyricDrawn,         \* the fillText calls of the lyric step of the last composited frame
    colors,             \* the palette (imageColors) handed to the visualizers
    barStops,           \* the addColorStop calls of drawBarsVisualizer's gradient
    lineStops,          \* the addColorStop calls of drawLineVisualizer's gradient
    isFinished          \* preview: isFinished

vars == <<view, isExporting, exportStatus, calls, pc, error, assets,
          audioContextState, videoTracks, audioTracks, recState,
          stopEventPending, stopTimerPending, audioState, endedEventPending,
          currentTime, rafScheduled, lastProgress, progressLog, downloads,
          lastFrame, lyrics, previewTime, currentLyricIndex, audioOversize,
          parsedLyrics, internalOrder, draggedItemIndex, editorTime,
          activeLyricIndex, visualizationStyle, lyricDrawn, colors, barStops,
          lineStops, isFinished>>

appVars == <<view, isExporting, exportStatus, calls>>
resVars == <<audioContextState, videoTracks, audioTracks>>
recVars == <<recState, stopEventPending, stopTimerPending>>
audioVars == <<audioState, endedEventPending, currentTime>>
renderVars == <<rafScheduled, lastProgress, progressLog, lastFrame, lyricDrawn>>
previewVars == <<previewTime, currentLyricIndex, isFinished>>
editorVars == <<parsedLyrics, internalOrder, draggedItemIndex, editorTime, activeLyricIndex>>
gradVars == <<colors, barStops, lineStops>>

\* ------------------------------------------------------------- lyrics
Texts == {"A", "B"}
LyricLine == [text : Texts, startTime : 0..MaxStart]

SeqsUpTo(S, n) == UNION {[1..k -> S] : k \in 0..n}

Timelines == SeqsUpTo(LyricLine, MaxLyrics)

ExportTimelines ==
    {<<>>, <<[text |-> "A", startTime |-> 1], [text |-> "B", startTime |-> 2]>>}

\* for (let i = lyrics.length - 1; i >= 0; i--) if (time >= lyrics[i].startTime) ... break
\* The index (1-based) the loop stops at, 0 when it runs through.
RECURSIVE ScanDown(_, _, _)
ScanUp(lyr, t, i) ==
    IF {j \in 1..i : t >= lyr[j].startTime} = {} THEN 0
    ELSE CHOOSE j \in 1..i : /\ t >= lyr[j].startTime
                             /\ \A k \in 1..(j - 1) : t < lyr[k].startTime

ScanDownStrict(lyr, t, i) ==
    IF i = 0 THEN 0
    ELSE IF t > lyr[i].startTime THEN i
    ELSE ScanDown(lyr, t, i - 1)

ScanDown(lyr, t, i) ==
    IF i = 0 THEN 0
    ELSE IF t >= lyr[i].startTime THEN i
    ELSE ScanDown(lyr, t, i - 1)

\* renderFrame: let currentLyric = ''; ... currentLyric = lyrics[i].text
RenderLookup(lyr, t) ==
    LET i == ScanDown(lyr, t, Len(lyr))
    IN  IF i = 0 THEN "" ELSE lyr[i].text

\* VideoPreview.handleTimeUpdate: the new currentLyricIndex (0-based, -1: none);
\* the handler returns early, leaving the index as it is, on an empty list.
PreviewLookup(lyr, t, old) ==
    IF Len(lyr) = 0 THEN old
    ELSE ScanDown(lyr, t, Len(lyr)) - 1

\* VideoPreview: currentLyric = currentLyricIndex > -1 ? lyrics[currentLyricIndex]?.text : ''
PreviewLyricText(lyr, idx) ==
    IF idx > -1 /\ idx + 1 \in DOMAIN lyr THEN lyr[idx + 1].text ELSE ""

\* array.sort((a, b) => a.startTime - b.startTime) on an array of Lyric objects,
\* given as the sequence ord of their indices in lyr.  The sort is stable: an
\* entry goes behind every entry already placed whose startTime is not larger.
RECURSIVE InsertByStart(_, _, _)
InsertByStartUnstable(lyr, sorted, x) ==
    IF sorted = <<>> THEN <<x>>
    ELSE IF lyr[Head(sorted)].startTime < lyr[x].startTime
         THEN <<Head(sorted)>> \o InsertByStart(lyr, Tail(sorted), x)
         ELSE <<x>> \o sorted

InsertByStart(lyr, sorted, x) ==
    IF sorted = <<>> THEN <<x>>
    ELSE IF lyr[Head(sorted)].startTime <= lyr[x].startTime
         THEN <<Head(sorted)>> \o InsertByStart(lyr, Tail(sorted), x)
         ELSE <<x>> \o sorted

RECURSIVE SortOrder(_, _)
SortOrder(lyr, ord) ==
    IF ord = <<>> THEN <<>>
    ELSE InsertByStart(lyr, SortOrder(lyr, SubSeq(ord, 1, Len(ord) - 1)), ord[Len(ord)])

Identity(n) == [i \in 1..n |-> i]

\* the array whose k-th element is the object lyr[ord[k]]
Reorder(lyr, ord) == [k \in 1..Len(ord) |-> lyr[ord[k]]]

\* parsedLyrics.sort(...) in structureLyrics / extractLyricsFromAudio
SortLyrics(lyr) == Reorder(lyr, SortOrder(lyr, Identity(Len(lyr))))

\* VisualizationStyle
Styles == {"classic", "vinyl", "waves", "big_text"}

\* drawLyric: if (!lyric) return; ... ctx.fillText(lyric, x, y)
\* The fillText calls it makes.
drawLyric(lyric) == IF lyric = "" THEN <<>> ELSE <<lyric>>

\* renderFrame, switch (visualizationStyle): the lyric step of each case
LyricLayerOldVinyl(style, currentLyric) ==
    CASE style = "vinyl" -> <<>>
      [] style = "waves" -> drawLyric(currentLyric)
      [] style = "big_text" -> drawLyric(currentLyric)
      [] OTHER -> drawLyric(currentLyric)

LyricLayer(style, currentLyric) ==
    CASE style = "vinyl" -> drawLyric(currentLyric)
      [] style = "waves" -> drawLyric(currentLyric)
      [] style = "big_text" -> drawLyric(currentLyric)
      [] OTHER -> drawLyric(currentLyric)

\* a || b on numbers: 0 is falsy
JsOr(a, b) == IF a # 0 THEN a ELSE b

\* colors.forEach((color, index) => gradient.addColorStop(index / (colors.length - 1 || 1), color))
\* The addColorStop calls, each offset as the fraction <<numerator, denominator>>.
ColorStopsNoFallback(palette) ==
    [i \in 1..Len(palette) |->
        [offset |-> <<i - 1, Len(palette) - 1>>, color |-> palette[i]]]

ColorStops(palette) ==
    [i \in 1..Len(palette) |->
        [offset |-> <<i - 1, JsOr(Len(palette) - 1, 1)>>, color |-> palette[i]]]

\* ------------------------------------------------------------- progress
\* Math.floor(progress * 100) with progress = audio.currentTime / audio.duration;
\* lastProgress starts at -1, so its floor is -100.
Pct(t) == IF t = -1 THEN -100 ELSE (100 * t) \div Duration

\* renderFrame: onProgress(0.2 + (progress * 0.8))
RenderProgressUnscaled(t) == 100 * t

RenderProgressValue(t) == 20 * Duration + 80 * t

\* the setup calls onProgress(0), (0.05), (0.1), (0.15), (0.2) and the final onProgress(1)
P0 == 0
P5 == 5 * Duration
P10 == 10 * Duration
P15 == 15 * Duration
P20 == 20 * Duration
P100 == Scale

\* ------------------------------------------------------------- initial state
NoFrame == <<>>

InitCommon ==
    /\ view = "INPUT"
    /\ isExporting = FALSE
    /\ exportStatus = ""
    /\ calls = 0
    /\ pc = "idle"
    /\ error = "none"
    /\ assets = [a \in {"image", "audio", "vinylImage"} |-> "none"]
    /\ audioContextState = "none"
    /\ videoTracks = "none"
    /\ audioTracks = "none"
    /\ recState = "none"
    /\ stopEventPending = FALSE
    /\ stopTimerPending = FALSE
    /\ audioState = "none"
    /\ endedEventPending = FALSE
    /\ currentTime = 0
    /\ rafScheduled = FALSE
    /\ lastProgress = -1
    /\ progressLog = <<>>
    /\ downloads = 0
    /\ lastFrame = NoFrame
    /\ previewTime = -1
    /\ currentLyricIndex = -1
    /\ isFinished = FALSE
    /\ lyricDrawn = <<>>
    /\ barStops = <<>>
    /\ lineStops = <<>>

\* TimelineEditor not mounted
EditorClosed ==
    /\ internalOrder = <<>>
    /\ draggedItemIndex = 0
    /\ editorTime = -1
    /\ activeLyricIndex = -1

Init ==
    /\ InitCommon
    /\ lyrics \in ExportTimelines
    /\ audioOversize \in BOOLEAN
    /\ visualizationStyle \in Styles
    /\ colors = <<>>
    /\ parsedLyrics = <<>>
    /\ EditorClosed

\* ------------------------------------------------------------- App
\* handleLyricsSubmitted: the input form leads to the preview.  The form is
\* rendered only while nothing is exporting.
handleLyricsSubmitted ==
    /\ view = "INPUT"
    /\ ~isExporting
    /\ view' = "VIDEO_PREVIEW"
    /\ UNCHANGED <<isExporting, exportStatus, calls, pc, error, assets, lyrics, audioOversize, visualizationStyle>>
    /\ UNCHANGED <<resVars, recVars, audioVars, renderVars, downloads, previewVars, gradVars, editorVars>>

\* handleBackToInput: the preview's back button; it touches appState.view only.
handleBackToInput ==
    /\ view = "VIDEO_PREVIEW"
    /\ ~isExporting
    /\ view' = "INPUT"
    /\ UNCHANGED <<isExporting, exportStatus, calls, pc, error, assets, lyrics, audioOversize, visualizationStyle>>
    /\ UNCHANGED <<resVars, recVars, audioVars, renderVars, downloads, previewVars, gradVars, editorVars>>

\* The continuation of handleExportVideo after `await exportVideo(...)`.
AppResolved ==
    /\ isExporting' = FALSE
    /\ exportStatus' = "Export completed successfully!"

AppRejected ==
    /\ isExporting' = FALSE
    /\ exportStatus' = "Export failed"

\* exportVideo's cleanup(): cancelAnimationFrame, audioContext.close(), track.stop()
cleanup ==
    /\ rafScheduled' = FALSE
    /\ audioContextState' = "closed"
    /\ videoTracks' = "stopped"
    /\ audioTracks' = "stopped"

\* handleExportVideo, first invocation, up to exportVideo's first await:
\* onProgress(0), the MediaRecorder / canvas context / AudioContext checks,
\* onProgress(0.05), and the three asset loads begun.
ExportRequestFirst(hasRecorder, hasCtx, hasAudioContext) ==
    /\ view = "VIDEO_PREVIEW"
    /\ ~isExporting
    /\ calls = 0
    /\ calls' = 1
    /\ IF ~hasRecorder \/ ~hasCtx
       THEN /\ pc' = "thrown"
            /\ error' = "capability"
            /\ progressLog' = <<P0>>
            /\ AppRejected
            /\ UNCHANGED <<assets, audioContextState>>
       ELSE IF ~hasAudioContext
       THEN /\ pc' = "thrown"
            /\ error' = "capability"
            /\ progressLog' = <<P0>>
            /\ AppRejected
            /\ UNCHANGED <<assets, audioContextState>>
       ELSE /\ pc' = "loading"
            /\ error' = error
            /\ progressLog' = <<P0, P5>>
            /\ audioContextState' = "running"
            /\ assets' = [a \in DOMAIN assets |-> "pending"]
            /\ isExporting' = TRUE
            /\ exportStatus' = "Initializing export..."
    /\ UNCHANGED <<view, lyrics, audioOversize, visualizationStyle, videoTracks, audioTracks, recVars, audioVars>>
    /\ UNCHANGED <<rafScheduled, lastProgress, lastFrame, lyricDrawn, downloads, previewVars, gradVars, editorVars>>

\* handleExportVideo while an earlier exportVideo has begun: neither the handler
\* nor exportVideo holds a guard, so a further run begins (its own onProgress(0)
\* goes to its own closure).  The further run is followed no further than this.
ExportRequestAgain ==
    /\ view = "VIDEO_PREVIEW"
    /\ ~isExporting
    /\ calls >= 1
    /\ calls < MaxCalls
    /\ calls' = calls + 1
    /\ isExporting' = TRUE
    /\ exportStatus' = "Initializing export..."
    /\ UNCHANGED <<view, pc, error, assets, lyrics, audioOversize, visualizationStyle>>
    /\ UNCHANGED <<resVars, recVars, audioVars, renderVars, downloads, previewVars, gradVars, editorVars>>

\* ------------------------------------------------------------- exportVideo
AllLoadedAfter(a) == \A b \in DOMAIN assets : b # a => assets[b] = "loaded"

\* An asset fires load / canplaythrough (ok) or error while Promise.all is awaited.
\* The first error rejects Promise.all: the .catch rethrows and exportVideo rejects,
\* with no cleanup.  The last load resumes exportVideo: onProgress(0.1), then the
\* fonts are awaited.
AssetEvent(a, ok) ==
    /\ pc = "loading"
    /\ assets[a] = "pending"
    /\ assets' = [assets EXCEPT ![a] = IF ok THEN "loaded" ELSE "error"]
    /\ IF ~ok
       THEN /\ pc' = "thrown"
            /\ error' = "asset"
            /\ AppRejected
            /\ UNCHANGED <<progressLog, audioState>>
       ELSE IF AllLoadedAfter(a)
       THEN /\ pc' = "fonts"
            /\ progressLog' = Append(progressLog, P10)
            /\ audioState' = "ready"
            /\ UNCHANGED <<error, isExporting, exportStatus>>
       ELSE UNCHANGED <<pc, error, isExporting, exportStatus, progressLog, audioState>>
    /\ UNCHANGED <<view, calls, lyrics, audioOversize, visualizationStyle, resVars, recVars, endedEventPending, currentTime>>
    /\ UNCHANGED <<rafScheduled, lastProgress, lastFrame, lyricDrawn, downloads, previewVars, gradVars, editorVars>>

\* The fonts settle (a failure is only warned about); exportVideo runs on to its
\* next await: onProgress(0.15), the audio graph, canvas.captureStream, the MIME
\* type selection, onProgress(0.2), the recorder and its handlers, then
\* recorder.start(1000) and audio.play() inside try { } catch { cleanup(); throw }.
SetupAndStartLateMime(graphOk, captureOk, mimeOk, startOk) ==
    /\ pc = "fonts"
    /\ IF ~graphOk
       THEN /\ pc' = "thrown"
            /\ error' = "audiograph"
            /\ progressLog' = Append(progressLog, P15)
            /\ AppRejected
            /\ UNCHANGED <<resVars, recState, audioState, rafScheduled>>
       ELSE IF ~captureOk
       THEN /\ pc' = "thrown"
            /\ error' = "capability"
            /\ progressLog' = Append(progressLog, P15)
            /\ audioTracks' = "live"
            /\ AppRejected
            /\ UNCHANGED <<audioContextState, videoTracks, recState, audioState, rafScheduled>>
       ELSE IF ~mimeOk
       THEN /\ pc' = "thrown"
            /\ error' = "capability"
            /\ progressLog' = Append(progressLog, P15)
            /\ audioTracks' = "live"
            /\ videoTracks' = "live"
            /\ recState' = "recording"
            /\ AppRejected
            /\ UNCHANGED <<audioContextState, audioState, rafScheduled>>
       ELSE IF ~startOk
       THEN /\ pc' = "thrown"
            /\ error' = "start"
            /\ progressLog' = Append(Append(progressLog, P15), P20)
            /\ recState' = "inactive"
            /\ cleanup
            /\ AppRejected
            /\ UNCHANGED audioState
       ELSE /\ pc' = "starting"
            /\ progressLog' = Append(Append(progressLog, P15), P20)
            /\ audioTracks' = "live"
            /\ videoTracks' = "live"
            /\ recState' = "recording"
            /\ UNCHANGED <<error, isExporting, exportStatus, audioContextState,
                           audioState, rafScheduled>>
    /\ UNCHANGED <<view, calls, assets, lyrics, audioOversize, visualizationStyle, stopEventPending, stopTimerPending>>
    /\ UNCHANGED <<endedEventPending, currentTime, lastProgress, lastFrame, lyricDrawn>>
    /\ UNCHANGED <<downloads, previewVars, gradVars, editorVars>>

SetupAndStartPlayFirst(graphOk, captureOk, mimeOk, startOk) ==
    /\ pc = "fonts"
    /\ IF ~graphOk
       THEN /\ pc' = "thrown"
            /\ error' = "audiograph"
            /\ progressLog' = Append(progressLog, P15)
            /\ AppRejected
            /\ UNCHANGED <<resVars, recState, audioState, rafScheduled>>
       ELSE IF ~captureOk
       THEN /\ pc' = "thrown"
            /\ error' = "capability"
            /\ progressLog' = Append(progressLog, P15)
            /\ audioTracks' = "live"
            /\ AppRejected
            /\ UNCHANGED <<audioContextState, videoTracks, recState, audioState, rafScheduled>>
       ELSE IF ~mimeOk
       THEN /\ pc' = "thrown"
            /\ error' = "capability"
            /\ progressLog' = Append(progressLog, P15)
            /\ audioTracks' = "live"
            /\ videoTracks' = "live"
            /\ AppRejected
            /\ UNCHANGED <<audioContextState, recState, audioState, rafScheduled>>
       ELSE IF ~startOk
       THEN /\ pc' = "thrown"
            /\ error' = "start"
            /\ progressLog' = Append(Append(progressLog, P15), P20)
            /\ recState' = "inactive"
            /\ cleanup
            /\ AppRejected
            /\ UNCHANGED audioState
       ELSE /\ pc' = "starting"
            /\ progressLog' = Append(Append(progressLog, P15), P20)
            /\ audioTracks' = "live"
            /\ videoTracks' = "live"
            /\ UNCHANGED <<error, isExporting, exportStatus, audioContextState,
                           recState, audioState, rafScheduled>>
    /\ UNCHANGED <<view, calls, assets, lyrics, audioOversize, visualizationStyle, stopEventPending, stopTimerPending>>
    /\ UNCHANGED <<endedEventPending, currentTime, lastProgress, lastFrame, lyricDrawn>>
    /\ UNCHANGED <<downloads, previewVars, gradVars, editorVars>>

SetupAndStart(graphOk, captureOk, mimeOk, startOk) ==
    /\ pc = "fonts"
    /\ IF ~graphOk
       THEN /\ pc' = "thrown"
            /\ error' = "audiograph"
            /\ progressLog' = Append(progressLog, P15)
            /\ AppRejected
            /\ UNCHANGED <<resVars, recState, audioState, rafScheduled>>
       ELSE IF ~captureOk
       THEN /\ pc' = "thrown"
            /\ error' = "capability"
            /\ progressLog' = Append(progressLog, P15)
            /\ audioTracks' = "live"
            /\ AppRejected
            /\ UNCHANGED <<audioContextState, videoTracks, recState, audioState, rafScheduled>>
       ELSE IF ~mimeOk
       THEN /\ pc' = "thrown"
            /\ error' = "capability"
            /\ progressLog' = Append(progressLog, P15)
            /\ audioTracks' = "live"
            /\ videoTracks' = "live"
            /\ AppRejected
            /\ UNCHANGED <<audioContextState, recState, audioState, rafScheduled>>
       ELSE IF ~startOk
       THEN /\ pc' = "thrown"
            /\ error' = "start"
            /\ progressLog' = Append(Append(progressLog, P15), P20)
            /\ recState' = "inactive"
            /\ cleanup
            /\ AppRejected
            /\ UNCHANGED audioState
       ELSE /\ pc' = "starting"
            /\ progressLog' = Append(Append(progressLog, P15), P20)
            /\ audioTracks' = "live"
            /\ videoTracks' = "live"
            /\ recState' = "recording"
            /\ UNCHANGED <<error, isExporting, exportStatus, audioContextState,
                           audioState, rafScheduled>>
    /\ UNCHANGED <<view, calls, assets, lyrics, audioOversize, visualizationStyle, stopEventPending, stopTimerPending>>
    /\ UNCHANGED <<endedEventPending, currentTime, lastProgress, lastFrame, lyricDrawn>>
    /\ UNCHANGED <<downloads, previewVars, gradVars, editorVars>>

\* renderFrame(): the audio.ended guard, the throttled onProgress, the lyric
\* lookup, the frame drawn on the captured canvas, the next animation frame.
renderFrameNoEndedGuard ==
    /\ progressLog' = IF Pct(currentTime) # Pct(lastProgress)
                      THEN Append(progressLog, RenderProgressValue(currentTime))
                      ELSE progressLog
    /\ lastProgress' = IF Pct(currentTime) # Pct(lastProgress)
                       THEN currentTime ELSE lastProgress
    /\ lastFrame' = <<currentTime, RenderLookup(lyrics, currentTime)>>
    /\ lyricDrawn' = LyricLayer(visualizationStyle, RenderLookup(lyrics, currentTime))
    /\ rafScheduled' = TRUE

renderFrame ==
    IF audioState = "ended"
    THEN /\ rafScheduled' = FALSE
         /\ UNCHANGED <<lastProgress, progressLog, lastFrame, lyricDrawn>>
    ELSE /\ progressLog' = IF Pct(currentTime) # Pct(lastProgress)
                           THEN Append(progressLog, RenderProgressValue(currentTime))
                           ELSE progressLog
         /\ lastProgress' = IF Pct(currentTime) # Pct(lastProgress)
                            THEN currentTime ELSE lastProgress
         /\ lastFrame' = <<currentTime, RenderLookup(lyrics, currentTime)>>
         /\ lyricDrawn' = LyricLayer(visualizationStyle, RenderLookup(lyrics, currentTime))
         /\ rafScheduled' = TRUE

\* audio.play() settles.  Fulfilled: isRecordingStarted = true; renderFrame();
\* exportVideo returns, so its promise resolves and handleExportVideo goes on.
\* Rejected: cleanup(); throw.
PlaySettled(ok) ==
    /\ pc = "starting"
    /\ audioState = "ready"
    /\ IF ok
       THEN /\ pc' = "returned"
            /\ audioState' = "playing"
            /\ renderFrame
            /\ AppResolved
            /\ UNCHANGED <<error, resVars>>
       ELSE /\ pc' = "thrown"
            /\ error' = "start"
            /\ cleanup
            /\ AppRejected
            /\ UNCHANGED <<audioState, lastProgress, progressLog, lastFrame, lyricDrawn>>
    /\ UNCHANGED <<view, calls, assets, lyrics, audioOversize, visualizationStyle, recVars, endedEventPending>>
    /\ UNCHANGED <<currentTime, downloads, previewVars, gradVars, editorVars>>

\* An animation frame arrives: the scheduled renderFrame runs.
AnimationFrame ==
    /\ rafScheduled
    /\ renderFrame
    /\ UNCHANGED <<appVars, pc, error, assets, lyrics, audioOversize, visualizationStyle, resVars, recVars, audioVars>>
    /\ UNCHANGED <<downloads, previewVars, gradVars, editorVars>>

\* Playback advances; at the end of the media audio.ended turns true and the
\* 'ended' event is queued.
AudioAdvanceLooping ==
    /\ audioState = "playing"
    /\ currentTime < Duration
    /\ currentTime' = (currentTime + 1) % Duration
    /\ UNCHANGED <<audioState, endedEventPending>>
    /\ UNCHANGED <<appVars, pc, error, assets, lyrics, audioOversize, visualizationStyle, resVars, recVars, renderVars>>
    /\ UNCHANGED <<downloads, previewVars, gradVars, editorVars>>

AudioAdvance ==
    /\ audioState = "playing"
    /\ currentTime < Duration
    /\ currentTime' = currentTime + 1
    /\ IF currentTime + 1 = Duration
       THEN audioState' = "ended" /\ endedEventPending' = TRUE
       ELSE UNCHANGED <<audioState, endedEventPending>>
    /\ UNCHANGED <<appVars, pc, error, assets, lyrics, audioOversize, visualizationStyle, resVars, recVars, renderVars>>
    /\ UNCHANGED <<downloads, previewVars, gradVars, editorVars>>

\* audio.onended: setTimeout(() => recorder.stop(), 500); cleanup();
audio_onended_NoTimer ==
    /\ endedEventPending
    /\ endedEventPending' = FALSE
    /\ stopTimerPending' = FALSE
    /\ cleanup
    /\ UNCHANGED <<appVars, pc, error, assets, lyrics, audioOversize, visualizationStyle, recState, stopEventPending>>
    /\ UNCHANGED <<audioState, currentTime, lastProgress, progressLog, lastFrame, lyricDrawn>>
    /\ UNCHANGED <<downloads, previewVars, gradVars, editorVars>>

audio_onended ==
    /\ endedEventPending
    /\ endedEventPending' = FALSE
    /\ stopTimerPending' = TRUE
    /\ cleanup
    /\ UNCHANGED <<appVars, pc, error, assets, lyrics, audioOversize, visualizationStyle, recState, stopEventPending>>
    /\ UNCHANGED <<audioState, currentTime, lastProgress, progressLog, lastFrame, lyricDrawn>>
    /\ UNCHANGED <<downloads, previewVars, gradVars, editorVars>>

\* audio.onerror: cleanup(); throw new Error('Audio playback failed during export').
\* The throw leaves an event handler: nothing catches it and exportVideo's promise,
\* already resolved, is not affected.
audio_onerror ==
    /\ audioState = "playing"
    /\ audioState' = "error"
    /\ error' = "playback"
    /\ cleanup
    /\ UNCHANGED <<appVars, pc, assets, lyrics, audioOversize, visualizationStyle, recVars, endedEventPending, currentTime>>
    /\ UNCHANGED <<lastProgress, progressLog, lastFrame, lyricDrawn, downloads, previewVars, gradVars, editorVars>>

\* The 500 ms timer fires: recorder.stop().  On a recording recorder it queues
\* the 'stop' event; on an inactive one it has no effect on the recorder.
StopTimerFiresAlways ==
    /\ stopTimerPending
    /\ stopTimerPending' = FALSE
    /\ recState' = "inactive"
    /\ stopEventPending' = TRUE
    /\ UNCHANGED <<appVars, pc, error, assets, lyrics, audioOversize, visualizationStyle, resVars, audioVars, renderVars>>
    /\ UNCHANGED <<downloads, previewVars, gradVars, editorVars>>

StopTimerFires ==
    /\ stopTimerPending
    /\ stopTimerPending' = FALSE
    /\ IF recState = "recording"
       THEN recState' = "inactive" /\ stopEventPending' = TRUE
       ELSE UNCHANGED <<recState, stopEventPending>>
    /\ UNCHANGED <<appVars, pc, error, assets, lyrics, audioOversize, visualizationStyle, resVars, audioVars, renderVars>>
    /\ UNCHANGED <<downloads, previewVars, gradVars, editorVars>>

\* recorder.onstop: the blob is built and offered for download (a.click()),
\* then onProgress(1).
recorder_onstop ==
    /\ stopEventPending
    /\ stopEventPending' = FALSE
    /\ downloads' = downloads + 1
    /\ progressLog' = Append(progressLog, P100)
    /\ UNCHANGED <<appVars, pc, error, assets, lyrics, audioOversize, visualizationStyle, resVars, recState>>
    /\ UNCHANGED <<stopTimerPending, audioVars, rafScheduled, lastProgress, lastFrame, lyricDrawn>>
    /\ UNCHANGED <<previewVars, gradVars, editorVars>>

\* MediaRecorder (MediaStream Recording): once every track of the recorded
\* stream has ended, a recording recorder may inactivate itself and fire 'stop'.
\* cleanup() ends the tracks without stopping the recorder, so whether the user
\* agent does this is left open.
RecorderTracksEnded ==
    /\ recState = "recording"
    /\ videoTracks = "stopped"
    /\ audioTracks = "stopped"
    /\ recState' = "inactive"
    /\ stopEventPending' = TRUE
    /\ UNCHANGED <<appVars, pc, error, assets, lyrics, audioOversize, visualizationStyle, resVars, stopTimerPending>>
    /\ UNCHANGED <<audioVars, renderVars, downloads, previewVars, gradVars, editorVars>>

\* recorder.onerror: throw new Error(`Recording failed: ...`).  The encoder fails
\* while recording; the handler only throws (uncaught, no cleanup), and the user
\* agent, having stopped gathering data, fires 'stop' after 'error'.
recorder_onerror ==
    /\ recState = "recording"
    /\ recState' = "inactive"
    /\ error' = "encoder"
    /\ stopEventPending' = TRUE
    /\ UNCHANGED <<appVars, pc, assets, lyrics, audioOversize, visualizationStyle, resVars, stopTimerPending>>
    /\ UNCHANGED <<audioVars, renderVars, downloads, previewVars, gradVars, editorVars>>

Next ==
    \/ handleLyricsSubmitted
    \/ handleBackToInput
    \/ \E r, c, a \in BOOLEAN : ExportRequestFirst(r, c, a)
    \/ ExportRequestAgain
    \/ \E a \in DOMAIN assets, ok \in BOOLEAN : AssetEvent(a, ok)
    \/ \E g, c, m, s \in BOOLEAN : SetupAndStart(g, c, m, s)
    \/ \E ok \in BOOLEAN : PlaySettled(ok)
    \/ AnimationFrame
    \/ AudioAdvance
    \/ audio_onended
    \/ audio_onerror
    \/ StopTimerFires
    \/ recorder_onstop
    \/ RecorderTracksEnded
    \/ recorder_onerror

Spec == Init /\ [][Next]_vars

\* The event loop runs every queued task: a queued event is dispatched, a
\* pending timer fires.
LiveSpec ==
    /\ Init
    /\ [][Next]_vars
    /\ WF_vars(audio_onended)
    /\ WF_vars(StopTimerFires)
    /\ WF_vars(recorder_onstop)

\* ------------------------------------------------------------- LyricSpec
\* The lookup on its own: any timeline, any query order.
LyricInit ==
    /\ InitCommon
    /\ lyrics \in Timelines
    /\ audioOversize = FALSE
    /\ visualizationStyle = "classic"
    /\ colors = <<>>
    /\ parsedLyrics = <<>>
    /\ internalOrder = SortOrder(lyrics, Identity(Len(lyrics)))
    /\ draggedItemIndex = 0
    /\ editorTime = -1
    /\ activeLyricIndex = -1

\* The render loop's lookup at playback position t (renderFrame, lyric step).
RenderLookupAt(t) ==
    /\ currentTime' = t
    /\ lastFrame' = <<t, RenderLookup(lyrics, t)>>
    /\ UNCHANGED <<appVars, pc, error, assets, lyrics, audioOversize, visualizationStyle, resVars, recVars, audioState>>
    /\ UNCHANGED <<endedEventPending, rafScheduled, lastProgress, progressLog, lyricDrawn>>
    /\ UNCHANGED <<downloads, previewVars, gradVars, editorVars>>

\* VideoPreview.handleTimeUpdate at playback position t.
handleTimeUpdate(t) ==
    /\ previewTime' = t
    /\ currentLyricIndex' = PreviewLookup(lyrics, t, currentLyricIndex)
    /\ UNCHANGED <<appVars, pc, error, assets, lyrics, audioOversize, visualizationStyle, resVars, recVars, audioVars>>
    /\ UNCHANGED <<renderVars, downloads, editorVars, gradVars, isFinished>>

\* the editor's internalLyrics: the parent's Lyric objects in the editor's order
InternalLyrics == Reorder(lyrics, internalOrder)

\* TimelineEditor's handleTimeUpdate at playback position t.
TimelineEditor_handleTimeUpdate(t) ==
    /\ editorTime' = t
    /\ activeLyricIndex' = ScanDown(InternalLyrics, t, Len(InternalLyrics)) - 1
    /\ UNCHANGED <<appVars, pc, error, assets, lyrics, audioOversize, visualizationStyle, resVars, recVars, audioVars>>
    /\ UNCHANGED <<renderVars, downloads, previewVars, gradVars>>
    /\ UNCHANGED <<parsedLyrics, internalOrder, draggedItemIndex>>

LyricNext ==
    \/ \E t \in 0..MaxTime : RenderLookupAt(t)
    \/ \E t \in 0..MaxTime : handleTimeUpdate(t)
    \/ \E t \in 0..MaxTime : TimelineEditor_handleTimeUpdate(t)

LyricSpec == LyricInit /\ [][LyricNext]_vars

\* ------------------------------------------------------------- preview
\* The VideoPreview's audio events on any timeline.
previewUnchanged ==
    UNCHANGED <<appVars, pc, error, assets, lyrics, audioOversize, visualizationStyle,
                resVars, recVars, audioVars, renderVars, downloads, editorVars, gradVars>>

\* handleEnded: setIsPlaying(false); setIsFinished(true); setCurrentLyricIndex(lyrics.length)
handleEnded ==
    /\ isFinished' = TRUE
    /\ currentLyricIndex' = Len(lyrics)
    /\ previewUnchanged
    /\ UNCHANGED previewTime

\* handleRestart: currentTime = 0; play(); setIsFinished(false); setCurrentLyricIndex(-1)
handleRestart ==
    /\ isFinished' = FALSE
    /\ currentLyricIndex' = -1
    /\ previewUnchanged
    /\ UNCHANGED previewTime

PreviewNext ==
    \/ \E t \in 0..MaxTime : handleTimeUpdate(t)
    \/ handleEnded
    \/ handleRestart

PreviewSpec == LyricInit /\ [][PreviewNext]_vars

\* ------------------------------------------------------------- gradients
\* The visualizers' gradients on any palette of up to MaxColors colours.
Colours == {"red", "blue"}

GradientInit ==
    /\ InitCommon
    /\ lyrics = <<>>
    /\ audioOversize = FALSE
    /\ visualizationStyle = "classic"
    /\ parsedLyrics = <<>>
    /\ EditorClosed
    /\ colors \in SeqsUpTo(Colours, MaxColors)

drawBarsVisualizer ==
    /\ barStops' = ColorStops(colors)
    /\ UNCHANGED <<appVars, pc, error, assets, lyrics, audioOversize, visualizationStyle>>
    /\ UNCHANGED <<resVars, recVars, audioVars, renderVars, downloads, previewVars, editorVars>>
    /\ UNCHANGED <<colors, lineStops>>

drawLineVisualizer ==
    /\ lineStops' = ColorStops(colors)
    /\ UNCHANGED <<appVars, pc, error, assets, lyrics, audioOversize, visualizationStyle>>
    /\ UNCHANGED <<resVars, recVars, audioVars, renderVars, downloads, previewVars, editorVars>>
    /\ UNCHANGED <<colors, barStops>>

GradientNext ==
    \/ drawBarsVisualizer
    \/ drawLineVisualizer

GradientSpec == GradientInit /\ [][GradientNext]_vars

\* ------------------------------------------------------------- timeline editor
\* Lyric production and the TimelineEditor.  The editor's arrays are shallow
\* copies: their elements are the parent's Lyric objects.
EditorInit ==
    /\ InitCommon
    /\ lyrics = <<>>
    /\ audioOversize = FALSE
    /\ visualizationStyle = "classic"
    /\ colors = <<>>
    /\ parsedLyrics \in Timelines
    /\ EditorClosed

exportUnchanged ==
    UNCHANGED <<isExporting, exportStatus, calls, pc, error, assets, audioOversize, visualizationStyle,
                resVars, recVars, audioVars, renderVars, downloads, previewVars, gradVars>>

\* structureLyrics / extractLyricsFromAudio: return parsedLyrics.sort(...); the
\* App stores the result and shows the preview.
LyricsProduced ==
    /\ view = "INPUT"
    /\ lyrics' = SortLyrics(parsedLyrics)
    /\ parsedLyrics' = <<>>
    /\ view' = "VIDEO_PREVIEW"
    /\ exportUnchanged
    /\ UNCHANGED <<internalOrder, draggedItemIndex, editorTime, activeLyricIndex>>

\* handleAdjustLyrics mounts the editor: useState(() => [...lyrics].sort(...))
handleAdjustLyrics ==
    /\ view = "VIDEO_PREVIEW"
    /\ view' = "TIMELINE_EDITOR"
    /\ internalOrder' = SortOrder(lyrics, Identity(Len(lyrics)))
    /\ draggedItemIndex' = 0
    /\ editorTime' = -1
    /\ activeLyricIndex' = -1
    /\ exportUnchanged
    /\ UNCHANGED <<lyrics, parsedLyrics>>

handleDragStart(index) ==
    /\ view = "TIMELINE_EDITOR"
    /\ index \in DOMAIN internalOrder
    /\ draggedItemIndex' = index
    /\ exportUnchanged
    /\ UNCHANGED <<view, lyrics, parsedLyrics, internalOrder, editorTime, activeLyricIndex>>

\* handleDrop: updatedLyrics = [...internalLyrics]; the dragged object's startTime
\* is assigned; setInternalLyrics(updatedLyrics.sort(...)); the ref is cleared.
handleDrop(newStartTime) ==
    /\ view = "TIMELINE_EDITOR"
    /\ draggedItemIndex # 0
    /\ lyrics' = [lyrics EXCEPT ![internalOrder[draggedItemIndex]].startTime = newStartTime]
    /\ internalOrder' = SortOrder(lyrics', internalOrder)
    /\ draggedItemIndex' = 0
    /\ exportUnchanged
    /\ UNCHANGED <<view, parsedLyrics, editorTime, activeLyricIndex>>

\* the text input's onChange: newLyrics = [...internalLyrics]; newLyrics[index].text = value
handleTextChange(index, value) ==
    /\ view = "TIMELINE_EDITOR"
    /\ index \in DOMAIN internalOrder
    /\ lyrics' = [lyrics EXCEPT ![internalOrder[index]].text = value]
    /\ exportUnchanged
    /\ UNCHANGED <<view, parsedLyrics, internalOrder, draggedItemIndex, editorTime, activeLyricIndex>>

\* handleSave: onSave(internalLyrics); the parent stores the array and unmounts the editor
handleSave ==
    /\ view = "TIMELINE_EDITOR"
    /\ lyrics' = InternalLyrics
    /\ view' = "VIDEO_PREVIEW"
    /\ internalOrder' = <<>>
    /\ draggedItemIndex' = 0
    /\ editorTime' = -1
    /\ activeLyricIndex' = -1
    /\ exportUnchanged
    /\ UNCHANGED parsedLyrics

\* the Cancel button: onCancel(); the parent unmounts the editor
onCancel ==
    /\ view = "TIMELINE_EDITOR"
    /\ view' = "VIDEO_PREVIEW"
    /\ internalOrder' = <<>>
    /\ draggedItemIndex' = 0
    /\ editorTime' = -1
    /\ activeLyricIndex' = -1
    /\ exportUnchanged
    /\ UNCHANGED <<lyrics, parsedLyrics>>

EditorNext ==
    \/ LyricsProduced
    \/ handleAdjustLyrics
    \/ \E index \in 1..MaxLyrics : handleDragStart(index)
    \/ \E newStartTime \in 0..MaxStart : handleDrop(newStartTime)
    \/ \E index \in 1..MaxLyrics, value \in Texts : handleTextChange(index, value)
    \/ handleSave
    \/ onCancel

EditorSpec == EditorInit /\ [][EditorNext]_vars

\* ------------------------------------------------------------- the export's state
Failed == error # "none"
Completed == downloads > 0

\* The state of section 4.4 the first export is in, read off the code's state.
ExportState ==
    IF pc = "idle" THEN "Idle"
    ELSE IF Completed THEN "Completed"
    ELSE IF Failed THEN "Failed"
    ELSE IF audioState = "ended" THEN "Finalizing"
    ELSE IF pc \in {"starting", "returned"} THEN "Encoding"
    ELSE "LoadingAssets"

InFlight == ExportState \in {"LoadingAssets", "Encoding", "Finalizing"}

NonDecreasing(s) == \A i \in 1..(Len(s) - 1) : s[i] <= s[i + 1]

\* ------------------------------------------------------------- claims

\* C1: for every timeline and every query timestamp, whatever was queried before,
\* the resolved lyric is the text of the highest-index entry with startTime <= t,
\* and empty when there is none; the boundary is inclusive.
Qualifying(lyr, t) == {i \in DOMAIN lyr : lyr[i].startTime <= t}

ActiveText(lyr, t) ==
    IF Qualifying(lyr, t) = {} THEN ""
    ELSE lyr[CHOOSE i \in Qualifying(lyr, t) : \A j \in Qualifying(lyr, t) : j <= i].text

C1_ActiveLyric ==
    /\ lastFrame # NoFrame => lastFrame[2] = ActiveText(lyrics, lastFrame[1])
    /\ previewTime # -1 =>
         PreviewLyricText(lyrics, currentLyricIndex) = ActiveText(lyrics, previewTime)

\* an out-of-order query exactly on the boundary of the second of two entries
C1_Witness ==
    /\ Len(lyrics) = 2
    /\ lyrics[1].startTime < lyrics[2].startTime
    /\ lastFrame # NoFrame
    /\ lastFrame[1] = lyrics[1].startTime
    /\ lastFrame[2] = lyrics[1].text
    /\ previewTime = lyrics[2].startTime
    /\ currentLyricIndex = 1
    /\ lastFrame[1] < previewTime

\* C2: across one successful export the values passed to onProgress never
\* decrease, and once the output is delivered the last one is exactly 1.0.
C2_ProgressMonotone ==
    ~Failed =>
        /\ NonDecreasing(progressLog)
        /\ Completed => progressLog[Len(progressLog)] = P100

\* a whole successful run: five setup reports, one per playback position, the final 1.0
C2_Witness ==
    /\ ~Failed
    /\ Completed
    /\ Len(progressLog) >= 5 + Duration
    /\ progressLog[Len(progressLog)] = P100

\* C3: the promise returned by exportVideo resolves only once the export is
\* Completed, never while it is Encoding or Finalizing.
C3_ResolvesAtCompletion == pc = "returned" => ExportState = "Completed"

\* C4: in a run in which the export fails, no output is offered for download
\* and onProgress(1.0) is never reported.
C4_NoOutputOnFailure ==
    Failed => /\ downloads = 0
              /\ \A i \in DOMAIN progressLog : progressLog[i] # P100

\* C5: while one export is LoadingAssets, Encoding or Finalizing, a second export
\* request is rejected: no further exportVideo run begins.
C5_SingleExport == [][InFlight => calls' = calls]_vars

\* C6: whenever the export has Failed, the audio context is closed, the capture
\* tracks are stopped and no animation-frame callback is scheduled.
C6_FailureReleases ==
    Failed => /\ audioContextState # "running"
              /\ videoTracks # "live"
              /\ audioTracks # "live"
              /\ ~rafScheduled

\* C7: after a cancel request made while the export is Encoding (the user
\* leaving the preview), there is no further onProgress call, no further frame or
\* timer callback, and no output is offered.
C7_CancelStops ==
    [][(view = "INPUT" /\ ExportState = "Encoding") =>
          /\ progressLog' = progressLog
          /\ lastFrame' = lastFrame
          /\ downloads' = downloads]_vars

\* C8: the export moves only along Idle -> LoadingAssets -> Encoding ->
\* Finalizing -> Completed, with Failed entered only from Idle, LoadingAssets or
\* Encoding; Completed and Failed are terminal and never hold together.
Transitions ==
    {<<"Idle", "LoadingAssets">>, <<"LoadingAssets", "Encoding">>,
     <<"Encoding", "Finalizing">>, <<"Finalizing", "Completed">>,
     <<"Idle", "Failed">>, <<"LoadingAssets", "Failed">>, <<"Encoding", "Failed">>}

C8_StateMachine ==
    /\ [][ExportState' = ExportState \/ <<ExportState, ExportState'>> \in Transitions]_vars
    /\ [](~(Failed /\ Completed))

\* C9: once playback has reached its natural end in a run without failure, the
\* recorder's stop handler eventually runs: the output is delivered and
\* onProgress(1.0) is the last report.
C9_EventuallyCompleted ==
    (audioState = "ended" /\ ~Failed) ~>
        (Completed /\ progressLog[Len(progressLog)] = P100)

\* playback ended, the timer fired on a recorder still recording, its stop handler ran
C9_Witness ==
    /\ audioState = "ended"
    /\ ~Failed
    /\ ~stopTimerPending
    /\ ~endedEventPending
    /\ recState = "inactive"
    /\ downloads = 1
    /\ progressLog[Len(progressLog)] = P100

C11_ProgressRange ==
    /\ \A i \in DOMAIN progressLog : progressLog[i] >= 0 /\ progressLog[i] <= Scale
    /\ pc \in {"idle", "loading", "fonts"} =>
          \A i \in DOMAIN progressLog : 5 * progressLog[i] <= Scale
    /\ lastProgress # -1 =>
          \E i \in DOMAIN progressLog :
              /\ 100 * progressLog[i] = 20 * Scale + 8000 * lastProgress
              /\ 5 * progressLog[i] >= Scale
              /\ progressLog[i] <= Scale

\* a render tick has reported in the middle of the track, after the five setup values
C11_Witness ==
    /\ audioState = "playing"
    /\ lastProgress = Duration - 1
    /\ Len(progressLog) = 5 + Duration
    /\ progressLog[5 + Duration] = 20 * Duration + 80 * (Duration - 1)

\* the whole percentage of a reported value v (held as v * Scale), rounded to nearest
RoundedPercent(v) == (2 * v + Duration) \div (2 * Duration)

\* C12: no two consecutive onProgress calls, the last setup call and the first
\* render tick included, carry the same rounded percentage
C12_NoRedundantProgress ==
    \A i \in 1..(Len(progressLog) - 1) :
        RoundedPercent(progressLog[i]) # RoundedPercent(progressLog[i + 1])

\* C14: within one export the elapsed times at which successive frames are
\* composited are non-decreasing
C14_FrameOrdering ==
    [][(lastFrame # NoFrame /\ lastFrame' # NoFrame) => lastFrame'[1] >= lastFrame[1]]_vars

\* frames have been composited up to the last tick before the end of the track
C14_Witness ==
    /\ lastFrame # NoFrame
    /\ lastFrame[1] = Duration - 1
    /\ audioState = "playing"
    /\ rafScheduled

\* C17: when the export fails because the host lacks a capability (MediaRecorder,
\* a 2D context, AudioContext, canvas capture or a supported MIME type), the audio
\* has not started playing and the recorder has not been started
C17_CapabilityBeforePlayback ==
    error = "capability" =>
        /\ recState = "none"
        /\ audioState \in {"none", "ready"}
        /\ currentTime = 0
        /\ lastFrame = NoFrame

\* the latest capability failure: no supported MIME type, found after the assets
\* loaded and both streams were captured
C17_Witness ==
    /\ error = "capability"
    /\ pc = "thrown"
    /\ videoTracks = "live"
    /\ audioState = "ready"
    /\ recState = "none"

\* C19: when the encoder reports an error while the export is Encoding, cleanup
\* happens at once (render loop stopped, audio stopped, audio graph closed, both
\* streams released), the export is Failed and the failure is surfaced to the caller
C19_EncoderFailureCleansUp ==
    error = "encoder" =>
        /\ ~rafScheduled
        /\ audioState # "playing"
        /\ audioContextState = "closed"
        /\ videoTracks = "stopped"
        /\ audioTracks = "stopped"
        /\ pc = "thrown"
        /\ exportStatus = "Export failed"

\* C20: when the audio element reports an error while the export is Encoding, the
\* render loop is stopped, the resources are released, the export is Failed and
\* the caller has received exactly one failure notification
C20_PlaybackFailureNotified ==
    error = "playback" =>
        /\ ~rafScheduled
        /\ audioContextState = "closed"
        /\ videoTracks = "stopped"
        /\ audioTracks = "stopped"
        /\ pc = "thrown"
        /\ exportStatus = "Export failed"

\* C18: whenever one of the three assets cannot be decoded, or the audio is
\* larger than the 20 MB ceiling, the export never proceeds to Encoding (the
\* recorder is never recording, playback is never requested)
C18_AssetFailureFails ==
    (audioOversize \/ \E a \in DOMAIN assets : assets[a] = "error") =>
        /\ pc \notin {"starting", "returned"}
        /\ recState # "recording"

\* C13: for any timeline, when the queried playback position does not decrease
\* from one render tick or timeupdate event to the next, the index of the
\* resolved lyric does not decrease (no lyric counting as below index 0)
C13_MonotoneIndex ==
    [][/\ (lastFrame # NoFrame /\ lastFrame' # NoFrame /\ lastFrame'[1] >= lastFrame[1]) =>
           ScanDown(lyrics, lastFrame'[1], Len(lyrics)) >= ScanDown(lyrics, lastFrame[1], Len(lyrics))
       /\ (previewTime # -1 /\ previewTime' >= previewTime) =>
           currentLyricIndex' >= currentLyricIndex
       /\ (editorTime # -1 /\ editorTime' >= editorTime) =>
           activeLyricIndex' >= activeLyricIndex]_vars

\* on a two-entry timeline all three lookups have moved on to the second entry
C13_Witness ==
    /\ Len(lyrics) = 2
    /\ lyrics[1].startTime < lyrics[2].startTime
    /\ lastFrame # NoFrame
    /\ lastFrame[1] > lyrics[2].startTime
    /\ lastFrame[2] = lyrics[2].text
    /\ previewTime > lyrics[2].startTime
    /\ currentLyricIndex = 1
    /\ editorTime > lyrics[2].startTime
    /\ activeLyricIndex = 1

SortedByStart(lyr) == \A i \in 1..(Len(lyr) - 1) : lyr[i].startTime <= lyr[i + 1].startTime

\* C15: whatever lyric production and editor operations (marker drops, text
\* edits, save, cancel) have happened, the lyric list the preview and the export
\* resolve against is sorted by startTime
C15_TimelineSorted == view = "VIDEO_PREVIEW" => SortedByStart(lyrics)

Perms(n) == {p \in [1..n -> 1..n] : \A i, j \in 1..n : p[i] = p[j] => i = j}

IsStableSortOf(out, in) ==
    /\ Len(out) = Len(in)
    /\ \E p \in Perms(Len(in)) :
          /\ \A k \in 1..Len(in) : out[k] = in[p[k]]
          /\ \A i, j \in 1..Len(in) :
                i < j => \/ in[p[i]].startTime < in[p[j]].startTime
                         \/ in[p[i]].startTime = in[p[j]].startTime /\ p[i] < p[j]

C22_GraceDelay ==
    [][(audioState = "ended" /\ error = "none" /\ error' = "none"
          /\ recState = "recording" /\ recState' = "inactive") =>
           (stopTimerPending /\ ~stopTimerPending')]_vars

\* C23: at the natural end, as long as the recorder has not yet been told to
\* stop (the delayed recorder.stop() is still pending), the tracks feeding the
\* recorder are live and the audio context is not closed
C23_TeardownOrder ==
    stopTimerPending =>
        /\ videoTracks = "live"
        /\ audioTracks = "live"
        /\ audioContextState # "closed"

Count(s, v) == Cardinality({i \in DOMAIN s : s[i] = v})

\* C24: in any export run recorder.onstop (blob, download, onProgress(1)) runs at
\* most once, whatever the interleaving of 'ended', cleanup, the delayed stop and
\* the recorder's own stop; and in a run that played to the end without failure
\* it does run
C24_DeliveredOnce ==
    /\ [](downloads <= 1 /\ Count(progressLog, P100) = downloads)
    /\ (audioState = "ended" /\ error = "none") ~> (downloads = 1)

\* the recorder stopped by itself and delivered while the delayed stop was
\* still pending
C24_Witness ==
    /\ downloads = 1
    /\ stopTimerPending
    /\ recState = "inactive"
    /\ ~stopEventPending
    /\ error = "none"

C26_LoadingTimesOut ==
    pc = "loading" => ENABLED (Next /\ pc' # "loading" /\ assets' = assets)

Max(a, b) == IF a >= b THEN a ELSE b

\* the stops are those of palette: colour i (counted from 0) at i / max(n - 1, 1),
\* every offset a fraction with a positive denominator lying in [0, 1]
StopsOf(stops, palette) ==
    /\ Len(stops) = Len(palette)
    /\ \A i \in DOMAIN stops :
          /\ stops[i].color = palette[i]
          /\ stops[i].offset[2] > 0
          /\ stops[i].offset[1] * Max(Len(palette) - 1, 1) = (i - 1) * stops[i].offset[2]
          /\ stops[i].offset[1] >= 0
          /\ stops[i].offset[1] <= stops[i].offset[2]
    /\ Len(palette) = 1 => stops[1].offset[1] = 0
    /\ Len(palette) >= 2 =>
          /\ stops[1].offset[1] = 0
          /\ stops[Len(stops)].offset[1] = stops[Len(stops)].offset[2]

\* C28: for every palette of n >= 1 colours, in the bar and in the line
\* visualizer, colour i gets the stop i / max(n - 1, 1); every stop lies in
\* [0, 1], nothing is divided by zero, one colour gets the single stop 0, and for
\* n >= 2 the first stop is 0 and the last is 1
C28_GradientStops ==
    /\ barStops # <<>> => StopsOf(barStops, colors)
    /\ lineStops # <<>> => StopsOf(lineStops, colors)

\* both visualizers have built their gradient on a one-colour palette
C28_Witness ==
    /\ Len(colors) = 1
    /\ Len(barStops) = 1
    /\ Len(lineStops) = 1
    /\ barStops[1].offset = <<0, 1>>
    /\ lineStops[1].offset = <<0, 1>>

\* C29: marker drops and text edits made in the timeline editor do not touch
\* the lyric list owned by the parent, so that when the editor is left through
\* Cancel the list has the entries, texts, start times and order it had when the
\* editor was opened: no step that keeps the editor open changes the list
C29_CancelHasNoEffect ==
    [][(view = "TIMELINE_EDITOR" /\ view' = "TIMELINE_EDITOR") => lyrics' = lyrics]_vars

\* C30: from the preview's 'ended' until the user restarts playback no lyric is
\* displayed, whatever 'timeupdate' events arrive in between
C30_NoLyricAfterEnded ==
    isFinished => PreviewLyricText(lyrics, currentLyricIndex) = ""

====
